---- MODULE Spec2Model ----
(***************************************************************************)
(* A model of the ASCIIliens simulation engine (src/game): the Game        *)
(* struct, its entities Player, Blast and Alien, and Game::update, the     *)
(* single operation that advances the world by one frame.                  *)
(*                                                                         *)
(* Game::update runs to completion, so one action models one call.  The    *)
(* variable trace records what the last call did (the command, the state   *)
(* it was called in, and what each phase decided); the engine never reads  *)
(* it.  The field id of an alien is likewise bookkeeping: it names the     *)
(* alien so that it can be followed while the vector is purged.            *)
(***************************************************************************)
EXTENDS Integers, Sequences, FiniteSets, TLC

VARIABLES game_state, score, frame_counter, player, blasts, aliens, trace

vars == <<game_state, score, frame_counter, player, blasts, aliens, trace>>

----------------------------------------------------------------------------
(* util/constants.rs *)

GAME_WIDTH == 80
GAME_HEIGHT == 24
ALIEN_MOVE_DOWN_FREQ == 10
PLAYER_WIDTH == 6
ALIEN_WIDTH == 2
ALIEN_HEIGHT == 2
PLAYER_Y_OFFSET == 2
INITIAL_SCORE == 100

(* i32 range of Game::score *)
I32_MAX == 2147483647
I32_MIN == -I32_MAX - 1

(* the points awarded and deducted by Game::update *)
DESTROY_BONUS == 250
ACTION_COST == 1

(* the explosion frame at which the animation is complete *)
EXPLOSION_DONE == 5

(* the glyphs, as character codes: '*' and the four two-by-two designs *)
BLAST_CHAR == 42

ALIEN_DESIGNS ==
    <<<<178, 178, 176, 176>>, <<219, 219, 223, 223>>,
      <<220, 220, 220, 220>>, <<234, 234, 196, 196>>>>

EXPLOSION_STAGE_1 == <<1, 0, 0, 0>>
EXPLOSION_STAGE_2_bottom_first == <<1, 0, 1, 0>>
EXPLOSION_STAGE_2 == <<1, 1, 0, 0>>
EXPLOSION_STAGE_3 == <<1, 1, 1, 0>>
EXPLOSION_STAGE_4 == <<1, 1, 1, 1>>

----------------------------------------------------------------------------
(* Bounds of the model *)

(* update calls made while Playing in a run that starts from a set-up *)
MaxSteps == 4
(* update calls made while Playing in a run that starts from Game::new *)
MaxNewSteps == 1
MaxEdgeSteps == 2
(* aliens the caller places in the vector before the run *)
MaxAliens == 2
(* frames played before the caller sets the vectors up *)
StartFrame == 8

----------------------------------------------------------------------------
(* Types *)

GameState == {"Playing", "Win", "GameOver", "Quit"}
GameEvent == {"MoveLeft", "MoveRight", "Fire", "Quit", "AdvanceFrame"}

Min(a, b) == IF a < b THEN a ELSE b
Max(a, b) == IF a > b THEN a ELSE b

(* i32::saturating_sub / i32::saturating_add, u16::saturating_sub *)
(* (for b >= 0, written so that no intermediate value leaves the i32 range) *)
saturating_sub(a, b) == IF a < I32_MIN + b THEN I32_MIN ELSE a - b
wrapping_add(a, b) ==
    IF a > I32_MAX - b THEN (a - I32_MAX) + (b - 1) + I32_MIN ELSE a + b

saturating_add(a, b) == IF a > I32_MAX - b THEN I32_MAX ELSE a + b
u16_saturating_sub(a, b) == Max(a - b, 0)

----------------------------------------------------------------------------
(* game/player.rs *)

Player_new == [x |-> GAME_WIDTH \div 2]

Player_y_pos == GAME_HEIGHT - PLAYER_Y_OFFSET

Player_move_left_to_zero(p) ==
    IF p.x > 0 THEN [p EXCEPT !.x = @ - 1] ELSE p

Player_move_left(p) ==
    IF p.x > PLAYER_WIDTH \div 2 THEN [p EXCEPT !.x = @ - 1] ELSE p

Player_move_right(p) ==
    IF p.x < GAME_WIDTH - PLAYER_WIDTH \div 2 - 1 THEN [p EXCEPT !.x = @ + 1] ELSE p

collides_with_alien_if_alive(p, alien) ==
    /\ alien.alive
    /\ u16_saturating_sub(p.x, PLAYER_WIDTH \div 2) <= alien.x + ALIEN_WIDTH - 1
    /\ p.x + PLAYER_WIDTH \div 2 - 1 >= alien.x
    /\ Player_y_pos <= alien.y + ALIEN_HEIGHT - 1
    /\ Player_y_pos >= alien.y

collides_with_alien(p, alien) ==
    LET player_left == u16_saturating_sub(p.x, PLAYER_WIDTH \div 2)
        player_right == p.x + PLAYER_WIDTH \div 2 - 1
        alien_left == alien.x
        alien_right == alien.x + ALIEN_WIDTH - 1
        player_top == Player_y_pos
        player_bottom == Player_y_pos
        alien_top == alien.y
        alien_bottom == alien.y + ALIEN_HEIGHT - 1
        horizontal_overlap == (player_left <= alien_right) /\ (player_right >= alien_left)
        vertical_overlap == (player_top <= alien_bottom) /\ (player_bottom >= alien_top)
    IN  horizontal_overlap /\ vertical_overlap

----------------------------------------------------------------------------
(* game/blast.rs *)

Blast_new(x, y) == [x |-> x, y |-> y]

(* Blast::move_up; Game::update_blasts discards the returned flag *)
(* the flag Blast::move_up returns *)
move_up_returns(blast) == blast.y > 0

move_up_stops_below_top(blast) ==
    IF blast.y > 1 THEN [blast EXCEPT !.y = @ - 1] ELSE blast

move_up(blast) == IF blast.y > 0 THEN [blast EXCEPT !.y = @ - 1] ELSE blast

----------------------------------------------------------------------------
(* game/alien.rs *)

Alien_new(id, x, y) ==
    [id |-> id, x |-> x, y |-> y, alive |-> TRUE, explosion_frame |-> 0]

Alien_move_left(alien) ==
    IF alien.x > 0 THEN [alien EXCEPT !.x = @ - 1] ELSE alien

Alien_move_right_to_last_column(alien) ==
    IF alien.x < GAME_WIDTH - 1 THEN [alien EXCEPT !.x = @ + 1] ELSE alien

Alien_move_right(alien) ==
    IF alien.x < GAME_WIDTH - ALIEN_WIDTH THEN [alien EXCEPT !.x = @ + 1] ELSE alien

move_down_stays(alien) == alien

move_down(alien) == [alien EXCEPT !.y = @ + 1]

(* Alien::display_strings: the two rows of glyphs of an alien of the given *)
(* design.  At explosion frame 5 the index is outside the array of stages  *)
(* and the call panics.                                                    *)
display_strings(alien) ==
    IF alien.explosion_frame = 0
    THEN <<<<alien.design[1], alien.design[2]>>,
           <<alien.design[3], alien.design[4]>>>>
    ELSE LET explosion_stages == <<EXPLOSION_STAGE_1, EXPLOSION_STAGE_2,
                                   EXPLOSION_STAGE_3, EXPLOSION_STAGE_4>>
             stage_idx == alien.explosion_frame - 1
         IN  IF stage_idx >= Len(explosion_stages) THEN "panic"
             ELSE LET current_stage == explosion_stages[stage_idx + 1]
                      glyph(i) == IF current_stage[i] = 1
                                  THEN BLAST_CHAR ELSE alien.design[i]
                  IN  <<<<glyph(1), glyph(2)>>, <<glyph(3), glyph(4)>>>>

collides_with_blast_until_exploded(alien, blast) ==
    /\ alien.explosion_frame < EXPLOSION_DONE
    /\ blast.x >= alien.x
    /\ blast.x < alien.x + ALIEN_WIDTH
    /\ blast.y >= alien.y
    /\ blast.y < alien.y + ALIEN_HEIGHT

collides_with_blast_while_exploding(alien, blast) ==
    /\ alien.alive
    /\ blast.x >= alien.x
    /\ blast.x < alien.x + ALIEN_WIDTH
    /\ blast.y >= alien.y
    /\ blast.y < alien.y + ALIEN_HEIGHT

collides_with_blast(alien, blast) ==
    /\ alien.alive
    /\ alien.explosion_frame = 0
    /\ blast.x >= alien.x
    /\ blast.x < alien.x + ALIEN_WIDTH
    /\ blast.y >= alien.y
    /\ blast.y < alien.y + ALIEN_HEIGHT

----------------------------------------------------------------------------
(* game/mod.rs *)

(* Game::initialize_aliens_for_game: three rows of ten aliens, row-major *)
initialize_aliens_for_game_two_rows ==
    [k \in 1..20 |->
        LET row == (k - 1) \div 10
            col == (k - 1) % 10
        IN  Alien_new(k, col * 6 + 10, row * 3 + 3)]

initialize_aliens_for_game ==
    [k \in 1..30 |->
        LET row == (k - 1) \div 10
            col == (k - 1) % 10
        IN  Alien_new(k, col * 6 + 10, row * 3 + 3)]

(* Game::fire_blast *)
fire_blast_in_front(bs, p) ==
    <<Blast_new(p.x, u16_saturating_sub(Player_y_pos, 1))>> \o bs

fire_blast_on_player_row(bs, p) ==
    Append(bs, Blast_new(p.x, Player_y_pos))

fire_blast(bs, p) ==
    Append(bs, Blast_new(p.x, u16_saturating_sub(Player_y_pos, 1)))

(* Game::update_blasts; Vec::retain is SelectSeq *)
OnScreen(blast) == blast.y > 0

update_blasts(bs) ==
    SelectSeq([i \in 1..Len(bs) |-> move_up(bs[i])], OnScreen)

(* Game::handle_collisions.  first_hit is the inner loop with its break:   *)
(* the index of the first alien the blast collides with, 0 if there is     *)
(* none.  collide_from is the outer loop from blast i on; it returns the   *)
(* two vectors and the set of <<blast, alien id>> hits it made.            *)
first_hit_takes_last(as, blast) ==
    LET colliding == {j \in 1..Len(as) : collides_with_blast(as[j], blast)}
    IN  IF colliding = {} THEN 0
        ELSE CHOOSE j \in colliding : \A k \in colliding : j >= k

first_hit(as, blast) ==
    LET colliding == {j \in 1..Len(as) : collides_with_blast(as[j], blast)}
    IN  IF colliding = {} THEN 0
        ELSE CHOOSE j \in colliding : \A k \in colliding : j <= k

RECURSIVE collide_from(_, _, _, _)
collide_from(bs, as, i, hits) ==
    IF i > Len(bs) THEN [blasts |-> bs, aliens |-> as, hits |-> hits]
    ELSE LET j == IF bs[i].y > 0 THEN first_hit(as, bs[i]) ELSE 0
         IN  IF j = 0 THEN collide_from(bs, as, i + 1, hits)
             ELSE collide_from([bs EXCEPT ![i].y = 0],
                               [as EXCEPT ![j].explosion_frame = 1],
                               i + 1,
                               hits \cup {<<bs[i], as[j].id>>})

handle_collisions(bs, as) ==
    LET r == collide_from(bs, as, 1, {})
    IN  [r EXCEPT !.blasts = SelectSeq(@, OnScreen)]

(* Game::update_explosions.  explode_from is the loop from alien i on; it  *)
(* returns the vector, the score and the ids whose animation completed.    *)
RECURSIVE explode_from(_, _, _, _)
explode_from(as, sc, i, completed) ==
    IF i > Len(as) THEN [aliens |-> as, score |-> sc, completed |-> completed]
    ELSE IF as[i].explosion_frame > 0 /\ as[i].explosion_frame < EXPLOSION_DONE
         THEN LET frame == as[i].explosion_frame + 1
              IN  IF frame = EXPLOSION_DONE
                  THEN explode_from(
                         [as EXCEPT ![i].explosion_frame = frame, ![i].alive = FALSE],
                         saturating_add(sc, DESTROY_BONUS), i + 1,
                         completed \cup {as[i].id})
                  ELSE explode_from([as EXCEPT ![i].explosion_frame = frame],
                                    sc, i + 1, completed)
         ELSE explode_from(as, sc, i + 1, completed)

update_explosions_scores_hit(as, sc) ==
    LET r == explode_from(as, sc, 1, {})
        hit == {i \in 1..Len(as) : as[i].explosion_frame = 1}
    IN  [r EXCEPT !.score = saturating_add(@, DESTROY_BONUS * Cardinality(hit))]

update_explosions(as, sc) == explode_from(as, sc, 1, {})

(* Game::update_alien_movement.  movable_aliens lists, in vector order,    *)
(* the indices of the aliens that are alive and not exploding; n is the    *)
(* value gen_range(0..movable_aliens.len()) returned.                      *)
Movable_while_exploding(alien) == alien.alive

Movable(alien) == alien.alive /\ alien.explosion_frame = 0

movable_aliens(as) ==
    LET Idx == [i \in 1..Len(as) |-> i]
        IsMovable(i) == Movable(as[i])
    IN  SelectSeq(Idx, IsMovable)

move_towards_player_onto_centre(alien, p) ==
    IF alien.x < p.x /\ alien.x < GAME_WIDTH - ALIEN_WIDTH
    THEN Alien_move_right(alien)
    ELSE IF alien.x > p.x /\ alien.x > 0
         THEN Alien_move_left(alien)
         ELSE alien

move_towards_player(alien, p) ==
    IF /\ alien.x < u16_saturating_sub(p.x, PLAYER_WIDTH \div 2)
       /\ alien.x < GAME_WIDTH - ALIEN_WIDTH
    THEN Alien_move_right(alien)
    ELSE IF /\ alien.x > p.x + PLAYER_WIDTH \div 2 - 1
            /\ alien.x > 0
         THEN Alien_move_left(alien)
         ELSE alien

update_alien_movement_descends_all(as, p, frame, n) ==
    LET movable == movable_aliens(as)
        moved == IF movable # <<>>
                 THEN [as EXCEPT ![movable[n + 1]] = move_towards_player(@, p)]
                 ELSE as
    IN  IF frame % ALIEN_MOVE_DOWN_FREQ = 0
        THEN [i \in 1..Len(moved) |-> move_down(moved[i])]
        ELSE moved

update_alien_movement(as, p, frame, n) ==
    LET movable == movable_aliens(as)
        moved == IF movable # <<>>
                 THEN [as EXCEPT ![movable[n + 1]] = move_towards_player(@, p)]
                 ELSE as
    IN  IF frame % ALIEN_MOVE_DOWN_FREQ = 0
        THEN [i \in 1..Len(moved) |->
                IF Movable(moved[i]) THEN move_down(moved[i]) ELSE moved[i]]
        ELSE moved

(* Game::check_game_over_conditions.  It returns the purged vector, the    *)
(* state it leaves, and the conditions it evaluated before returning.      *)
NotGone_through_last_frame(alien) ==
    alien.alive \/ alien.explosion_frame <= EXPLOSION_DONE

NotGone_alive_only(alien) == alien.alive

NotGone(alien) == alien.alive \/ alien.explosion_frame < EXPLOSION_DONE

(* the win test: aliens.iter().all(|alien| !alien.alive()) *)
all_defeated_when_empty(kept) == kept = <<>>

all_defeated_or_exploding(kept) ==
    \A i \in 1..Len(kept) : ~kept[i].alive \/ kept[i].explosion_frame > 0

all_defeated(kept) == \A i \in 1..Len(kept) : ~kept[i].alive

Invades_by_top_row(alien) ==
    /\ alien.alive
    /\ alien.explosion_frame = 0
    /\ alien.y >= Player_y_pos

Invades_while_exploding(alien) ==
    /\ alien.alive
    /\ alien.y + ALIEN_HEIGHT - 1 >= Player_y_pos

Invades_strictly_below(alien) ==
    /\ alien.alive
    /\ alien.explosion_frame = 0
    /\ alien.y + ALIEN_HEIGHT - 1 > Player_y_pos

Invades(alien) ==
    /\ alien.alive
    /\ alien.explosion_frame = 0
    /\ alien.y + ALIEN_HEIGHT - 1 >= Player_y_pos

Rams(alien, p) ==
    /\ alien.alive
    /\ alien.explosion_frame = 0
    /\ collides_with_alien(p, alien)

check_game_over_conditions_invasion_unset(as, p, st) ==
    LET kept == SelectSeq(as, NotGone)
    IN  IF all_defeated(kept)
        THEN [aliens |-> kept, game_state |-> "Win", evaluated |-> <<"win">>]
        ELSE IF \E i \in 1..Len(kept) : Invades(kept[i])
        THEN [aliens |-> kept, game_state |-> st,
              evaluated |-> <<"win", "invasion">>]
        ELSE IF \E i \in 1..Len(kept) : Rams(kept[i], p)
        THEN [aliens |-> kept, game_state |-> "GameOver",
              evaluated |-> <<"win", "invasion", "collision">>]
        ELSE [aliens |-> kept, game_state |-> st,
              evaluated |-> <<"win", "invasion", "collision">>]

check_game_over_conditions(as, p, st) ==
    LET kept == SelectSeq(as, NotGone)
    IN  IF all_defeated(kept)
        THEN [aliens |-> kept, game_state |-> "Win", evaluated |-> <<"win">>]
        ELSE IF \E i \in 1..Len(kept) : Invades(kept[i])
        THEN [aliens |-> kept, game_state |-> "GameOver",
              evaluated |-> <<"win", "invasion">>]
        ELSE IF \E i \in 1..Len(kept) : Rams(kept[i], p)
        THEN [aliens |-> kept, game_state |-> "GameOver",
              evaluated |-> <<"win", "invasion", "collision">>]
        ELSE [aliens |-> kept, game_state |-> st,
              evaluated |-> <<"win", "invasion", "collision">>]

(* Game::update.  n is the value the random number generator returns if    *)
(* update_alien_movement consults it.  frozen is the early return of a     *)
(* call made when the game is no longer Playing; advance is the rest of    *)
(* the body.  A call made while Playing spends one unit of the run's       *)
(* budget of calls.                                                        *)
Snapshot ==
    [game_state |-> game_state, score |-> score, frame_counter |-> frame_counter,
     player |-> player, blasts |-> blasts, aliens |-> aliens]

(* Bookkeeping: for every alien hit and still in the vector when the call  *)
(* before this one returned, the calls made since the one that hit it,     *)
(* whether all of them were AdvanceFrame, and the score before the hit.    *)
HitIds(hits) == {h[2] : h \in hits}

Ids(as) == {as[i].id : i \in 1..Len(as)}

track_hits(event, hits, completed, as) ==
    LET old == DOMAIN trace.hit_at
        new == HitIds(hits)
        live == (old \cup new) \cap (Ids(as) \cup completed)
    IN  [id \in live |->
            IF id \in new
            THEN [steps |-> 0, noops |-> TRUE, score |-> score]
            ELSE [steps |-> trace.hit_at[id].steps + 1,
                  noops |-> trace.hit_at[id].noops /\ event = "AdvanceFrame",
                  score |-> trace.hit_at[id].score]]

(* how often update_alien_movement calls gen_range, given the vector of   *)
(* movable aliens it collected                                             *)
gen_range_calls_always(movable) == 1

gen_range_calls(movable) == IF movable = <<>> THEN 0 ELSE 1

(* the player after the command's arm of the match in Game::update *)
steer_recoils(event, p) ==
    CASE event = "MoveLeft" -> Player_move_left(p)
      [] event = "MoveRight" -> Player_move_right(p)
      [] event = "Fire" -> Player_move_left(p)
      [] OTHER -> p

steer(event, p) ==
    CASE event = "MoveLeft" -> Player_move_left(p)
      [] event = "MoveRight" -> Player_move_right(p)
      [] OTHER -> p

(* the score after the command's arm of the match in Game::update *)
charge_every_command(event, sc) == saturating_sub(sc, ACTION_COST)

charge_moves_only(event, sc) ==
    IF event \in {"MoveLeft", "MoveRight"}
    THEN saturating_sub(sc, ACTION_COST) ELSE sc

charge(event, sc) ==
    IF event \in {"MoveLeft", "MoveRight", "Fire"}
    THEN saturating_sub(sc, ACTION_COST) ELSE sc

frozen_but_counting(event, n) ==
    /\ n = 0
    /\ trace' = [trace EXCEPT !.event = event, !.pre = Snapshot,
                              !.hits = {}, !.completed = {},
                              !.evaluated = <<>>, !.rng_calls = 0,
                              !.at_check = aliens]
    /\ frame_counter' = frame_counter + 1
    /\ UNCHANGED <<game_state, score, player, blasts, aliens>>

frozen(event, n) ==
    /\ n = 0
    /\ trace' = [trace EXCEPT !.event = event, !.pre = Snapshot,
                              !.hits = {}, !.completed = {},
                              !.evaluated = <<>>, !.rng_calls = 0,
                              !.at_check = aliens]
    /\ UNCHANGED <<game_state, score, frame_counter, player, blasts, aliens>>

advance_quit_returns(event, n) ==
    LET frame == frame_counter + 1
        p1 == steer(event, player)
        b1 == IF event = "Fire" THEN fire_blast(blasts, player) ELSE blasts
        s1 == charge(event, score)
        b2 == IF event = "Quit" THEN b1 ELSE update_blasts(b1)
        hc == IF event = "Quit"
              THEN [blasts |-> b1, aliens |-> aliens, hits |-> {}]
              ELSE handle_collisions(b2, aliens)
        ex == IF event = "Quit"
              THEN [aliens |-> aliens, score |-> s1, completed |-> {}]
              ELSE update_explosions(hc.aliens, s1)
        movable == IF event = "Quit" THEN <<>> ELSE movable_aliens(ex.aliens)
        mv == IF event = "Quit" THEN aliens
              ELSE update_alien_movement(ex.aliens, p1, frame, n)
        go == IF event = "Quit"
              THEN [aliens |-> aliens, game_state |-> "Quit", evaluated |-> <<>>]
              ELSE check_game_over_conditions(mv, p1, game_state)
    IN  /\ trace.budget > 0
        /\ IF movable = <<>> THEN n = 0 ELSE n < Len(movable)
        /\ frame_counter' = frame
        /\ player' = p1
        /\ score' = ex.score
        /\ blasts' = hc.blasts
        /\ aliens' = go.aliens
        /\ game_state' = go.game_state
        /\ trace' = [budget |-> trace.budget - 1, event |-> event,
                     pre |-> Snapshot, hits |-> hc.hits,
                     completed |-> ex.completed,
                     evaluated |-> go.evaluated,
                     rng_calls |-> gen_range_calls(movable),
                     at_check |-> mv,
                     hit_at |-> track_hits(event, hc.hits, ex.completed, go.aliens),
                     paid |-> trace.paid
                         + (IF event \in {"MoveLeft", "MoveRight", "Fire"}
                            THEN 1 ELSE 0),
                     built |-> trace.built]

advance(event, n) ==
    LET frame == frame_counter + 1
        p1 == steer(event, player)
        b1 == IF event = "Fire" THEN fire_blast(blasts, player) ELSE blasts
        s1 == charge(event, score)
        st1 == IF event = "Quit" THEN "Quit" ELSE game_state
        b2 == update_blasts(b1)
        hc == handle_collisions(b2, aliens)
        ex == update_explosions(hc.aliens, s1)
        movable == movable_aliens(ex.aliens)
        mv == update_alien_movement(ex.aliens, p1, frame, n)
        go == check_game_over_conditions(mv, p1, st1)
    IN  /\ trace.budget > 0
        /\ IF movable = <<>> THEN n = 0 ELSE n < Len(movable)
        /\ frame_counter' = frame
        /\ player' = p1
        /\ score' = ex.score
        /\ blasts' = hc.blasts
        /\ aliens' = go.aliens
        /\ game_state' = go.game_state
        /\ trace' = [budget |-> trace.budget - 1, event |-> event,
                     pre |-> Snapshot, hits |-> hc.hits,
                     completed |-> ex.completed,
                     evaluated |-> go.evaluated,
                     rng_calls |-> gen_range_calls(movable),
                     at_check |-> mv,
                     hit_at |-> track_hits(event, hc.hits, ex.completed, go.aliens),
                     paid |-> trace.paid
                         + (IF event \in {"MoveLeft", "MoveRight", "Fire"}
                            THEN 1 ELSE 0),
                     built |-> trace.built]

update_without_guard(event, n) == advance(event, n)

update(event, n) ==
    IF game_state # "Playing" THEN frozen(event, n) ELSE advance(event, n)

----------------------------------------------------------------------------
(* Initial states *)

NoTrace(budget, as) ==
    [budget |-> budget, event |-> "None", pre |-> <<>>, hits |-> {},
     completed |-> {}, evaluated |-> <<>>, rng_calls |-> 0, at_check |-> as,
     hit_at |-> <<>>, paid |-> 0, built |-> Len(as)]

(* Game::new *)
InitNew ==
    /\ player = Player_new
    /\ blasts = <<>>
    /\ aliens = initialize_aliens_for_game
    /\ frame_counter = 0
    /\ game_state = "Playing"
    /\ score = INITIAL_SCORE
    /\ trace = NoTrace(MaxNewSteps, aliens)

(* A game as the tests of lib.rs set it up: Game::new, StartFrame calls of *)
(* update(AdvanceFrame), then the vectors replaced through aliens_mut()    *)
(* and blasts_mut() by aliens built with their public constructor and      *)
(* setters.  The player's span is columns 37..42 of row 22.  The intact    *)
(* aliens of the pool stand in the player's column within reach of a fresh *)
(* blast, left of the span one descent away from the player's row, and     *)
(* right of the span, out of reach and on the row above the player's; the  *)
(* exploding one is about to complete on the row above the player's, and   *)
(* the one marked dead stands there too.                                   *)
Column == Player_new.x
LeftOfSpan == Player_new.x - PLAYER_WIDTH \div 2 - 1
RightOfSpan == Player_new.x + PLAYER_WIDTH \div 2

Placed(x, y, alive, frame) ==
    [x |-> x, y |-> y, alive |-> alive, explosion_frame |-> frame]

AlienPool ==
    {Placed(Column, Player_y_pos - 3, TRUE, 0),
     Placed(Column, Player_y_pos - 2, TRUE, 0),
     Placed(LeftOfSpan, Player_y_pos - 2, TRUE, 0),
     Placed(RightOfSpan, Player_y_pos - 3, TRUE, 0),
     Placed(RightOfSpan, Player_y_pos - 1, TRUE, 0),
     Placed(Column, Player_y_pos - 1, TRUE, EXPLOSION_DONE - 1),
     Placed(Column, Player_y_pos - 1, FALSE, 0)}

SetUps ==
    UNION {[1..k -> AlienPool] : k \in 0..MaxAliens}

WithIds(as) ==
    [i \in 1..Len(as) |->
        [id |-> i, x |-> as[i].x, y |-> as[i].y, alive |-> as[i].alive,
         explosion_frame |-> as[i].explosion_frame]]

Init ==
    /\ player = Player_new
    /\ blasts = <<>>
    /\ \E as \in SetUps : aliens = WithIds(as)
    /\ frame_counter = StartFrame
    /\ game_state = "Playing"
    /\ score = INITIAL_SCORE
    /\ trace = NoTrace(MaxSteps, aliens)

(* A game set up the same way after the player was driven to an end of    *)
(* its range: Game::new, as many MoveLeft (or MoveRight) calls as lead     *)
(* from the starting column to the bound, then the vectors replaced.  The  *)
(* blasts are old ones of the player's column about to leave the screen;   *)
(* the aliens stand on the top row of that column, within reach of a fresh *)
(* blast, and at the far end of the playfield, where one is intact and one *)
(* about to complete its explosion.                                        *)
LeftBound == PLAYER_WIDTH \div 2
RightBound == GAME_WIDTH - PLAYER_WIDTH \div 2 - 1

FarEnd(x) == IF x = LeftBound THEN GAME_WIDTH - ALIEN_WIDTH ELSE 0

EdgePool(x) ==
    {Placed(x, 0, TRUE, 0),
     Placed(x, Player_y_pos - 3, TRUE, 0),
     Placed(FarEnd(x), Player_y_pos - 4, TRUE, 0),
     Placed(FarEnd(x), Player_y_pos - 4, TRUE, EXPLOSION_DONE - 1)}

EdgeSetUps(x) ==
    UNION {[1..k -> EdgePool(x)] : k \in 0..MaxAliens}

EdgeBlasts(x) ==
    {<<>>, <<Blast_new(x, 1)>>, <<Blast_new(x, 2)>>,
     <<Blast_new(x, 1), Blast_new(x, 2)>>}

InitEdge ==
    /\ \E x \in {LeftBound, RightBound} :
          /\ player = [x |-> x]
          /\ blasts \in EdgeBlasts(x)
          /\ \E as \in EdgeSetUps(x) : aliens = WithIds(as)
          /\ frame_counter = Max(x, Player_new.x) - Min(x, Player_new.x)
          /\ score = INITIAL_SCORE - frame_counter
    /\ game_state = "Playing"
    /\ trace = [NoTrace(MaxEdgeSteps, aliens) EXCEPT !.paid = frame_counter]

(* A game set up like the first with aliens that are all alive: one within *)
(* reach of a fresh blast, one left of the span a descent away from the    *)
(* player's row, and two on the row above the player's in the player's     *)
(* column, one starting and one about to complete its explosion.           *)
AlivePool ==
    {Placed(Column, Player_y_pos - 3, TRUE, 0),
     Placed(LeftOfSpan, Player_y_pos - 2, TRUE, 0),
     Placed(Column, Player_y_pos - 1, TRUE, 1),
     Placed(Column, Player_y_pos - 1, TRUE, EXPLOSION_DONE - 1)}

AliveSetUps ==
    UNION {[1..k -> AlivePool] : k \in 0..MaxAliens}

InitAlive ==
    /\ player = Player_new
    /\ blasts = <<>>
    /\ \E as \in AliveSetUps : aliens = WithIds(as)
    /\ frame_counter = StartFrame
    /\ game_state = "Playing"
    /\ score = INITIAL_SCORE
    /\ trace = NoTrace(MaxSteps, aliens)

(* The score arithmetic at the ends of the i32 range: a game set up as the *)
(* first, its score drawn from the values at and next to the minimum and   *)
(* within the bonus of the maximum, with an alien about to complete its    *)
(* explosion and an intact one out of reach.                               *)
ScorePool ==
    {I32_MIN, I32_MIN + 1, INITIAL_SCORE, I32_MAX - DESTROY_BONUS - 1,
     I32_MAX - DESTROY_BONUS, I32_MAX - 1, I32_MAX}

ScoreAliens ==
    {Placed(Column, Player_y_pos - 1, TRUE, EXPLOSION_DONE - 1),
     Placed(RightOfSpan, Player_y_pos - 3, TRUE, 0)}

ScoreSetUps ==
    UNION {[1..k -> ScoreAliens] : k \in 0..MaxAliens}

InitScore ==
    /\ player = Player_new
    /\ blasts = <<>>
    /\ \E as \in ScoreSetUps : aliens = WithIds(as)
    /\ frame_counter = StartFrame
    /\ game_state = "Playing"
    /\ score \in ScorePool
    /\ trace = NoTrace(MaxEdgeSteps, aliens)

(* The end of the longest game: a game set up one call before the descent  *)
(* that takes an alien of the constructor's top row to the row above the   *)
(* player's.  The intact aliens stand where the descents so far have taken *)
(* that row; aliens hit earlier are part-way through their explosions on   *)
(* the rows they were hit on.                                              *)
FirstRow == initialize_aliens_for_game[1].y
InvasionFrame ==
    ALIEN_MOVE_DOWN_FREQ * (Player_y_pos - ALIEN_HEIGHT + 1 - FirstRow)
LastFrame == InvasionFrame + EXPLOSION_DONE - 2

LateRow == FirstRow + (InvasionFrame - 1) \div ALIEN_MOVE_DOWN_FREQ

LatePool ==
    {Placed(Column, LateRow, TRUE, 0),
     Placed(LeftOfSpan, LateRow, TRUE, 0),
     Placed(RightOfSpan, LateRow, TRUE, 2),
     Placed(RightOfSpan, LateRow - ALIEN_HEIGHT, TRUE, EXPLOSION_DONE - 1)}

LateSetUps ==
    UNION {[1..k -> LatePool] : k \in 0..MaxAliens}

InitLate ==
    /\ player = Player_new
    /\ blasts = <<>>
    /\ \E as \in LateSetUps : aliens = WithIds(as)
    /\ frame_counter = InvasionFrame - 1
    /\ game_state = "Playing"
    /\ score = INITIAL_SCORE
    /\ trace = NoTrace(MaxSteps, aliens)

(* A game in which the player fired from the starting column and then     *)
(* moved two columns to the right: the blast has risen three rows, and the *)
(* aliens stand one column short of the player's span, with their upper or *)
(* their lower row on the row the blast is about to enter.                 *)
CrossMoves == ALIEN_WIDTH

CrossPlayer == [x |-> Player_new.x + CrossMoves]

CrossBlast == Blast_new(Player_new.x, Player_y_pos - 2 - CrossMoves)

CrossPool ==
    {Placed(CrossPlayer.x - PLAYER_WIDTH \div 2 - 1, CrossBlast.y - 1, TRUE, 0),
     Placed(CrossPlayer.x - PLAYER_WIDTH \div 2 - 1, CrossBlast.y - 2, TRUE, 0),
     Placed(RightOfSpan + CrossMoves, CrossBlast.y - 1, TRUE, 2)}

CrossSetUps ==
    UNION {[1..k -> CrossPool] : k \in 0..MaxAliens}

InitCross ==
    /\ player = CrossPlayer
    /\ blasts = <<CrossBlast>>
    /\ \E as \in CrossSetUps : aliens = WithIds(as)
    /\ frame_counter = StartFrame
    /\ game_state = "Playing"
    /\ score = INITIAL_SCORE - ACTION_COST * (1 + CrossMoves)
    /\ trace = [NoTrace(MaxEdgeSteps, aliens) EXCEPT !.paid = 1 + CrossMoves]

(* A new game left to itself for one period of the descent: Game::new and *)
(* then ALIEN_MOVE_DOWN_FREQ calls of update(AdvanceFrame).  Of the values *)
(* the random number generator can return, the run takes the first two and *)
(* the last of the range.                                                  *)
InitNoops ==
    /\ player = Player_new
    /\ blasts = <<>>
    /\ aliens = initialize_aliens_for_game
    /\ frame_counter = 0
    /\ game_state = "Playing"
    /\ score = INITIAL_SCORE
    /\ trace = NoTrace(ALIEN_MOVE_DOWN_FREQ, aliens)

RngSample == {0, 1, Max(0, Len(aliens) - 1)}

----------------------------------------------------------------------------
(* Specifications *)

(* gen_range(0..movable_aliens.len()) is below the length of the vector *)
RngRange == 0..Max(0, Len(aliens) - 1)

Next == \E event \in GameEvent, n \in RngRange : update(event, n)

Spec == Init /\ [][Next]_vars

SpecNew == InitNew /\ [][Next]_vars

(* the idle run of a new game, and every command on the set-up games *)
Fresh == Len(aliens) = Len(initialize_aliens_for_game)

NoopRun == Fresh /\ \E n \in RngSample : update("AdvanceFrame", n)

SetUpRun == ~Fresh /\ Next

NextDescent == NoopRun \/ SetUpRun

SpecDescent == (Init \/ InitNoops) /\ [][NextDescent]_vars

SpecAlive == InitAlive /\ [][Next]_vars

SpecScore == InitScore /\ [][Next]_vars

SpecCross == InitCross /\ [][Next]_vars

SpecLate == (InitLate \/ InitNew) /\ [][Next]_vars

SpecEdge == InitEdge /\ [][Next]_vars

(* games started by the constructor together with games set up as above *)
SpecBoth == (Init \/ InitNew) /\ [][Next]_vars

----------------------------------------------------------------------------
(* Properties.  They speak about the last call of update through trace:    *)
(* trace.pre is the state the call was made in, the variables are the      *)
(* state it returned in.                                                   *)

Stepped == trace.event # "None"
PlayingStep == Stepped /\ trace.pre.game_state = "Playing"
TerminalStep == Stepped /\ trace.pre.game_state # "Playing"

Intact(alien) == alien.alive /\ alien.explosion_frame = 0

AtOrBelowPlayer(alien) == alien.y + ALIEN_HEIGHT - 1 >= Player_y_pos

(* the aliens of vector as, as a set *)
Elems(as) == {as[i] : i \in 1..Len(as)}

(* C1: a call of update made while the state is Win, GameOver or Quit      *)
(* changes nothing, whatever the command: state, score, frame counter,     *)
(* player, blasts and aliens are as before the call.                       *)
C1_TerminalStepIsNoOp ==
    TerminalStep =>
        /\ game_state = trace.pre.game_state
        /\ score = trace.pre.score
        /\ frame_counter = trace.pre.frame_counter
        /\ player = trace.pre.player
        /\ blasts = trace.pre.blasts
        /\ aliens = trace.pre.aliens

C1_Witness ==
    /\ TerminalStep
    /\ trace.event = "Fire"
    /\ game_state = "GameOver"
    /\ trace.budget > 0
    /\ aliens # <<>>

(* C2: a Quit command processed while Playing leaves the state Quit when   *)
(* the call returns.                                                       *)
C2_QuitYieldsQuit ==
    (PlayingStep /\ trace.event = "Quit") => game_state = "Quit"

(* C3: if the last alive alien's explosion completes in a call, the call   *)
(* returns in Win, not GameOver, also when that alien stood on the         *)
(* player's row; and a call that sets Win evaluates no loss condition.     *)
LastAliveCompletes ==
    /\ PlayingStep
    /\ trace.completed # {}
    /\ \A a \in Elems(trace.pre.aliens) : a.alive => a.id \in trace.completed

C3_WinPrecedence ==
    /\ LastAliveCompletes =>
          (game_state = "Win" /\ trace.evaluated = <<"win">>)
    /\ (PlayingStep /\ game_state = "Win") => trace.evaluated = <<"win">>

C3_Witness ==
    /\ LastAliveCompletes
    /\ game_state = "Win"
    /\ aliens # <<>>
    /\ \E a \in Elems(trace.pre.aliens) :
          /\ a.id \in trace.completed
          /\ AtOrBelowPlayer(a)
          /\ collides_with_alien(player, a)

(* C4: after a call made while Playing the state is Win exactly when no    *)
(* alien left in the vector (the fully exploded ones being purged) is      *)
(* alive; an alive alien in explosion frame 1..4 prevents Win.             *)
C4_WinIffNoneAlive ==
    PlayingStep =>
        /\ game_state = "Win" <=> (\A a \in Elems(aliens) : ~a.alive)
        /\ (\E a \in Elems(aliens) : a.alive /\ a.explosion_frame \in 1..4)
              => game_state # "Win"

C4_Witness ==
    /\ PlayingStep
    /\ game_state = "Win"
    /\ trace.completed = {}
    /\ \E a \in Elems(aliens) : ~a.alive /\ a.explosion_frame = 0

(* C5: if at the termination check of a call made while Playing an intact  *)
(* alien has its lower edge on or below the player's row, the call returns *)
(* in GameOver; an intact alien whose top row is one above the player's    *)
(* row makes the next call return in GameOver.                             *)
C5_InvasionLoss ==
    PlayingStep =>
        /\ (\E a \in Elems(trace.at_check) : Intact(a) /\ AtOrBelowPlayer(a))
              => game_state = "GameOver"
        /\ (\E a \in Elems(trace.pre.aliens) :
                Intact(a) /\ a.y = Player_y_pos - 1)
              => game_state = "GameOver"

C5_Witness ==
    /\ PlayingStep
    /\ game_state = "GameOver"
    /\ trace.event = "Quit"
    /\ \E a \in Elems(trace.pre.aliens) :
          /\ Intact(a) /\ a.y = Player_y_pos - 1
          /\ ~collides_with_alien(player, a)

(* the same loss brought about by the periodic descent *)
C5_DescentWitness ==
    /\ PlayingStep
    /\ game_state = "GameOver"
    /\ \E a \in Elems(trace.pre.aliens) :
          /\ Intact(a) /\ ~AtOrBelowPlayer(a)
          /\ \E b \in Elems(aliens) : b.id = a.id /\ Intact(b) /\ AtOrBelowPlayer(b)

(* the alien named id in vector as (as holds one) *)
Named(as, id) == CHOOSE a \in Elems(as) : a.id = id

(* the blast lies in the two-by-two box of the alien *)
InBox(blast, alien) ==
    /\ blast.x - alien.x \in 0..(ALIEN_WIDTH - 1)
    /\ blast.y - alien.y \in 0..(ALIEN_HEIGHT - 1)

(* what the command of the last call cost *)
CostOf(event) ==
    IF event \in {"MoveLeft", "MoveRight", "Fire"} THEN ACTION_COST ELSE 0

(* C6: when the call in which a blast hits an intact alien returns, that   *)
(* alien's explosion frame is 1, it is alive and no bonus was scored.      *)
C6_HitLeavesFrameOne ==
    PlayingStep =>
        \A id \in HitIds(trace.hits) :
            /\ id \in Ids(aliens)
            /\ Named(aliens, id).explosion_frame = 1
            /\ Named(aliens, id).alive
            /\ id \notin trace.completed

(* C7: an alien hit in one call and followed by AdvanceFrame calls         *)
(* completes its explosion (frame 5, not alive, bonus scored) in the       *)
(* fourth of them and in none before.                                      *)
C7_CompletesOnFourthNoop ==
    \A id \in DOMAIN trace.hit_at :
        trace.hit_at[id].noops =>
            (id \in trace.completed <=> trace.hit_at[id].steps = 4)

(* C8: the score rises only by the 250 bonus, given once for each alien    *)
(* in the call in which its explosion frame goes from 4 to 5, and such an  *)
(* alien leaves the vector in that call, so that it cannot score again;    *)
(* a hit and the frames 1..4 score nothing.                                *)
AtFrameFour(as) == {a \in Elems(as) : a.explosion_frame = EXPLOSION_DONE - 1}

C8_SingleBonus ==
    PlayingStep =>
        LET finishing == AtFrameFour(trace.pre.aliens)
        IN  /\ score = trace.pre.score - CostOf(trace.event)
                         + DESTROY_BONUS * Cardinality(finishing)
            /\ trace.completed = {a.id : a \in finishing}
            /\ \A a \in finishing : a.id \notin Ids(aliens)
            /\ Ids(aliens) \subseteq Ids(trace.pre.aliens)

C8_Witness ==
    /\ PlayingStep
    /\ trace.hits # {}
    /\ Cardinality(AtFrameFour(trace.pre.aliens)) = 1
    /\ trace.event = "Fire"
    /\ score = trace.pre.score - ACTION_COST + DESTROY_BONUS

(* C9: between two consecutive calls no alien's explosion frame decreases  *)
(* and none rises by more than one.                                        *)
C9_FrameStepsByOne ==
    PlayingStep =>
        \A a \in Elems(aliens) :
            LET before == Named(trace.pre.aliens, a.id).explosion_frame
            IN  /\ a.explosion_frame >= before
                /\ a.explosion_frame - before <= 1

(* C10: collides_with_blast is true exactly when the alien is alive, its   *)
(* explosion frame is 0 and the blast lies in its box.  Every hit of the   *)
(* last call was of such an alien, every blast that survived the call lay  *)
(* in the box of no alien intact at that moment, and the test agrees with  *)
(* the box around every alien of the vector.                               *)
Probes(alien) ==
    {Blast_new(x, y) : x \in Max(0, alien.x - 1)..(alien.x + ALIEN_WIDTH),
                       y \in Max(0, alien.y - 1)..(alien.y + ALIEN_HEIGHT)}

C10_Invulnerability ==
    /\ \A a \in Elems(aliens) : \A b \in Probes(a) \cup Elems(blasts) :
          collides_with_blast(a, b) <=> (Intact(a) /\ InBox(b, a))
    /\ PlayingStep =>
          /\ \A h \in trace.hits :
                /\ Intact(Named(trace.pre.aliens, h[2]))
                /\ InBox(h[1], Named(trace.pre.aliens, h[2]))
          /\ \A b \in Elems(blasts) : \A a \in Elems(trace.pre.aliens) :
                (Intact(a) /\ a.id \notin HitIds(trace.hits)) => ~InBox(b, a)

(* an alien that was hit before and now lets a blast through its box *)
C10_Witness ==
    /\ PlayingStep
    /\ \E b \in Elems(blasts) : \E a \in Elems(aliens) :
          /\ a.id \in DOMAIN trace.hit_at
          /\ a.explosion_frame > 0
          /\ InBox(b, a)

(* the place of the alien named id in vector as *)
IndexOf(as, id) == CHOOSE i \in 1..Len(as) : as[i].id = id

(* the aliens that were intact before the last call and are not any more *)
StartedExploding ==
    {a.id : a \in {b \in Elems(trace.pre.aliens) :
                      /\ Intact(b)
                      /\ \A c \in Elems(trace.at_check) : c.id = b.id => ~Intact(c)}}

(* C11: in the collision phase a blast hits at most one alien, the first   *)
(* in vector order whose test is true, also when the boxes of several      *)
(* intact aliens hold it; a blast that hits is gone when the call returns. *)
C11_OneHitPerBlast ==
    PlayingStep =>
        /\ \A h \in trace.hits :
              /\ \A g \in trace.hits : g[1] = h[1] => g = h
              /\ \A j \in 1..(IndexOf(trace.pre.aliens, h[2]) - 1) :
                    \/ ~Intact(trace.pre.aliens[j])
                    \/ ~InBox(h[1], trace.pre.aliens[j])
                    \/ trace.pre.aliens[j].id \in HitIds(trace.hits \ {h})
              /\ h[1] \notin Elems(blasts)
        /\ StartedExploding = HitIds(trace.hits)
        /\ Cardinality(StartedExploding) = Cardinality(trace.hits)

C11_Witness ==
    /\ PlayingStep
    /\ \E h \in trace.hits :
          \E a, b \in Elems(trace.pre.aliens) :
              /\ a.id # b.id
              /\ Intact(a) /\ InBox(h[1], a)
              /\ Intact(b) /\ InBox(h[1], b)
              /\ a.y # b.y
    /\ \E a \in Elems(aliens) : Intact(a)

(* the blasts of the vector that a call's blast phase leaves on screen *)
Flying(bs) == {i \in 1..Len(bs) : bs[i].y > 1}

(* the state before the last call is the one Game::new builds *)
FromNew ==
    /\ trace.pre.frame_counter = 0
    /\ trace.pre.blasts = <<>>
    /\ Len(trace.pre.aliens) = 3 * 10

(* C12: a Fire command processed while Playing adds exactly one blast,     *)
(* spawned in the player's column one row above the player and moved up in *)
(* the same call, so that it is at (player.x, player row - 2) when the     *)
(* call returns unless it hit an alien; other commands add none; one Fire  *)
(* on a new game leaves exactly that one blast and a score of 99.          *)
C12_FireAddsOneBlast ==
    PlayingStep =>
        LET fresh == [x |-> trace.pre.player.x, y |-> Player_y_pos - 2]
            added == IF trace.event = "Fire" THEN 1 ELSE 0
        IN  /\ Len(blasts) + Cardinality(trace.hits)
                  = Cardinality(Flying(trace.pre.blasts)) + added
            /\ trace.event = "Fire" =>
                  \/ fresh \in {h[1] : h \in trace.hits}
                  \/ blasts # <<>> /\ blasts[Len(blasts)] = fresh
            /\ (trace.event = "Fire" /\ FromNew) =>
                  /\ blasts = <<[x |-> GAME_WIDTH \div 2, y |-> Player_y_pos - 2]>>
                  /\ score = INITIAL_SCORE - 1

C12_Witness ==
    /\ PlayingStep
    /\ trace.event = "Fire"
    /\ FromNew
    /\ Len(blasts) = 1
    /\ game_state = "Playing"

(* a fresh blast that hit in the call that fired it, older ones flying on *)
C12_HitWitness ==
    /\ PlayingStep
    /\ trace.event = "Fire"
    /\ trace.hits # {}
    /\ trace.pre.blasts # <<>>
    /\ Len(blasts) = Len(trace.pre.blasts)

(* C13: a MoveLeft, MoveRight or Fire command processed while Playing      *)
(* lowers the score by exactly 1 before any bonus is added, whether or not *)
(* the player changed position; AdvanceFrame and Quit deduct nothing.      *)
C13_ActionCost ==
    PlayingStep =>
        LET bonus == DESTROY_BONUS * Cardinality(trace.completed)
            paid == trace.pre.score + bonus - score
        IN  /\ trace.event \in {"MoveLeft", "MoveRight", "Fire"} => paid = 1
            /\ trace.event \in {"AdvanceFrame", "Quit"} => paid = 0

C13_Witness ==
    /\ PlayingStep
    /\ trace.event \in {"MoveLeft", "MoveRight"}
    /\ player = trace.pre.player
    /\ trace.completed # {}
    /\ score = trace.pre.score - 1 + DESTROY_BONUS

(* C14: the player's x is always within [PLAYER_WIDTH / 2,                 *)
(* GAME_WIDTH - PLAYER_WIDTH / 2 - 1]; a move towards the bound the player *)
(* is at leaves x unchanged, any other move changes x by exactly one, and  *)
(* no other command moves the player.                                      *)
C14_PlayerClamped ==
    /\ player.x >= PLAYER_WIDTH \div 2
    /\ player.x <= GAME_WIDTH - PLAYER_WIDTH \div 2 - 1
    /\ PlayingStep =>
          LET old == trace.pre.player.x
          IN  player.x =
                CASE trace.event = "MoveLeft" ->
                        IF old = PLAYER_WIDTH \div 2 THEN old ELSE old - 1
                  [] trace.event = "MoveRight" ->
                        IF old = GAME_WIDTH - PLAYER_WIDTH \div 2 - 1
                        THEN old ELSE old + 1
                  [] OTHER -> old

C14_Witness ==
    /\ PlayingStep
    /\ trace.event = "MoveLeft"
    /\ trace.pre.player.x = PLAYER_WIDTH \div 2
    /\ player.x = PLAYER_WIDTH \div 2
    /\ trace.budget < MaxEdgeSteps - 1

(* the cells of the player's span and of an alien's box *)
PlayerCells(p) ==
    {<<c, Player_y_pos>> :
        c \in (p.x - PLAYER_WIDTH \div 2)..(p.x + PLAYER_WIDTH \div 2 - 1)}

AlienCells(alien) ==
    {<<alien.x + i, alien.y + j>> :
        i \in 0..(ALIEN_WIDTH - 1), j \in 0..(ALIEN_HEIGHT - 1)}

(* the alien moved by at most one cell each way, in each kind of condition *)
Variants(alien) ==
    {[alien EXCEPT !.x = Max(0, @ + dx), !.y = Max(0, @ + dy),
                   !.alive = f[1], !.explosion_frame = f[2]] :
        dx \in -1..1, dy \in -1..1,
        f \in {<<TRUE, 0>>, <<TRUE, 3>>, <<FALSE, EXPLOSION_DONE>>, <<FALSE, 0>>}}

(* C15: the player's collision test is purely geometric: it is true        *)
(* exactly when the span [x - 3, x + 2] on the player's row shares a cell  *)
(* with the alien's two-by-two box, whatever the alien's alive flag and    *)
(* explosion frame.                                                        *)
C15_PlayerOverlapGeometric ==
    \A a \in Elems(aliens) \cup Elems(trace.at_check) :
        \A v \in Variants(a) \cup {a} :
            collides_with_alien(player, v)
                <=> (PlayerCells(player) \cap AlienCells(v) # {})

C15_Witness ==
    /\ PlayingStep
    /\ game_state = "Playing"
    /\ \E a \in Elems(aliens) : ~a.alive /\ collides_with_alien(player, a)
    /\ \E a \in Elems(aliens) : Intact(a) /\ ~collides_with_alien(player, a)

(* the alien's box shares a cell with the player's span *)
Overlaps(alien, p) == PlayerCells(p) \cap AlienCells(alien) # {}

(* C16: if at the termination check of a call made while Playing an intact *)
(* alien's box overlaps the player's span, the call returns in GameOver.   *)
C16_CollisionLoss ==
    PlayingStep =>
        ((\E a \in Elems(trace.at_check) : Intact(a) /\ Overlaps(a, player))
            => game_state = "GameOver")

C16_Witness ==
    /\ PlayingStep
    /\ game_state = "GameOver"
    /\ \E a \in Elems(trace.at_check) : Intact(a) /\ Overlaps(a, player)
    /\ \E a \in Elems(trace.pre.aliens) : Intact(a) /\ ~Overlaps(a, trace.pre.player)
    /\ \A a \in Elems(trace.pre.aliens) : Intact(a) => ~Overlaps(a, player)

(* the game as Game::new returned it: the present one before any call, the *)
(* one before the call after the first                                     *)
Built == IF Stepped THEN trace.pre ELSE Snapshot

(* C17: the constructor yields state Playing, score 100, frame counter 0,  *)
(* no blasts, the player at x = GAME_WIDTH / 2 and exactly 30 aliens, all  *)
(* alive at explosion frame 0, one on each of the columns 10, 16, ..., 64  *)
(* of each of the rows 3, 6 and 9.                                         *)
C17_Constructor ==
    (~Stepped \/ trace.pre.frame_counter = 0) =>
        /\ Built.game_state = "Playing"
        /\ Built.score = 100
        /\ Built.frame_counter = 0
        /\ Built.blasts = <<>>
        /\ Built.player.x = GAME_WIDTH \div 2
        /\ Len(Built.aliens) = 30
        /\ \A a \in Elems(Built.aliens) : a.alive /\ a.explosion_frame = 0
        /\ {<<a.x, a.y>> : a \in Elems(Built.aliens)}
              = {10 + 6 * c : c \in 0..9} \X {3, 6, 9}

C17_Witness ==
    /\ Stepped
    /\ trace.pre.frame_counter = 0
    /\ trace.event = "AdvanceFrame"
    /\ Len(trace.pre.aliens) = 30
    /\ frame_counter = 1

(* C18: in a call whose frame counter, after the increment, is a multiple  *)
(* of ALIEN_MOVE_DOWN_FREQ every alien that is alive at explosion frame 0  *)
(* in the movement phase descends exactly one row, in every other call no  *)
(* alien changes row; after ALIEN_MOVE_DOWN_FREQ AdvanceFrame calls on a   *)
(* new game every alien is one row below its starting row, and before that *)
(* on it.                                                                  *)
C18_VerticalDescent ==
    /\ PlayingStep =>
          \A a \in Elems(trace.at_check) :
              LET b == Named(trace.pre.aliens, a.id)
                  due == frame_counter % ALIEN_MOVE_DOWN_FREQ = 0 /\ Intact(a)
              IN  a.y = IF due THEN b.y + 1 ELSE b.y
    /\ Fresh =>
          \A a \in Elems(aliens) :
              a.y - initialize_aliens_for_game[a.id].y
                  = IF frame_counter >= ALIEN_MOVE_DOWN_FREQ THEN 1 ELSE 0

C18_Witness ==
    /\ PlayingStep
    /\ frame_counter % ALIEN_MOVE_DOWN_FREQ = 0
    /\ \E a \in Elems(trace.at_check) :
          Intact(a) /\ a.y = Named(trace.pre.aliens, a.id).y + 1
    /\ \E a \in Elems(trace.at_check) :
          /\ a.alive /\ a.explosion_frame > 0
          /\ a.y = Named(trace.pre.aliens, a.id).y

(* the tenth idle call on a new game *)
C18_PeriodWitness ==
    /\ Fresh
    /\ frame_counter = ALIEN_MOVE_DOWN_FREQ
    /\ game_state = "Playing"
    /\ \E a \in Elems(aliens) : a.x # initialize_aliens_for_game[a.id].x

(* where a blast is after moving up one row *)
Up(blast) == [x |-> blast.x, y |-> blast.y - 1]

(* C19: in a call made while Playing every blast already in the vector     *)
(* either moves up exactly one row in its column and stays, or is removed, *)
(* and it is removed exactly when that row is row 0 or it hit an alien;    *)
(* the only other blast in the vector is the one a Fire command added, and *)
(* every blast in the vector when a call returns has y >= 1.               *)
C19_BlastLifecycle ==
    /\ \A b \in Elems(blasts) : b.y >= 1
    /\ PlayingStep =>
          LET old == Elems(trace.pre.blasts)
              hit == {h[1] : h \in trace.hits}
              fresh == IF trace.event = "Fire"
                       THEN {[x |-> player.x, y |-> Player_y_pos - 2]} ELSE {}
          IN  /\ \A b \in old :
                    Up(b) \in Elems(blasts) <=> ~(Up(b).y = 0 \/ Up(b) \in hit)
              /\ Elems(blasts) \subseteq {Up(b) : b \in old} \cup fresh
              /\ Len(blasts) = Cardinality(Elems(blasts))

C19_Witness ==
    /\ PlayingStep
    /\ \E b \in Elems(trace.pre.blasts) : b.y = 1 /\ Up(b) \notin Elems(blasts)
    /\ \E b \in Elems(trace.pre.blasts) : b.y > 1 /\ Up(b) \in Elems(blasts)

(* a blast that leaves through the box of an alien on the top rows *)
C19_TopRowWitness ==
    /\ PlayingStep
    /\ \E b \in Elems(trace.pre.blasts) :
          /\ b.y = 1
          /\ \E a \in Elems(trace.pre.aliens) : Intact(a) /\ InBox(Up(b), a)
    /\ trace.hits = {}

(* an old blast removed for hitting an alien on the top rows *)
C19_HitWitness ==
    /\ PlayingStep
    /\ \E b \in Elems(trace.pre.blasts) :
          Up(b) \in {h[1] : h \in trace.hits} /\ Up(b).y = 1

(* the aliens the last call took out of the vector *)
Removed == Ids(trace.pre.aliens) \ Ids(aliens)

(* C20: a call removes an alien from the vector only when the alien is not *)
(* alive and at explosion frame 5 or more, which is in the call where its  *)
(* explosion completed; no call adds an alien, so the number of aliens     *)
(* never increases.                                                        *)
C20_RemovalOnlyWhenExploded ==
    Stepped =>
        /\ Ids(aliens) \subseteq Ids(trace.pre.aliens)
        /\ Len(aliens) <= Len(trace.pre.aliens)
        /\ Len(aliens) = Cardinality(Ids(aliens))
        /\ \A id \in Removed :
              /\ ~Named(trace.at_check, id).alive
              /\ Named(trace.at_check, id).explosion_frame >= EXPLOSION_DONE
              /\ id \in trace.completed
        /\ TerminalStep => Removed = {}

C20_Witness ==
    /\ PlayingStep
    /\ Removed # {}
    /\ \E a \in Elems(aliens) : ~a.alive /\ a.explosion_frame < EXPLOSION_DONE

(* the aliens whose column the last call changed *)
Shifted ==
    {a \in Elems(trace.at_check) : a.x # Named(trace.pre.aliens, a.id).x}

LeftOfPlayer(alien, p) == alien.x < p.x - PLAYER_WIDTH \div 2
RightOfPlayer(alien, p) == alien.x > p.x + PLAYER_WIDTH \div 2 - 1

(* C21: in a call made while Playing at most one alien changes column; it  *)
(* is alive at explosion frame 0 in the movement phase and moves exactly   *)
(* one column towards the player, right if it was strictly left of the     *)
(* player's span, left if strictly right of it; an alien aligned with the  *)
(* span does not move, and if every movable alien is off the span one of   *)
(* them does.                                                              *)
C21_HorizontalMove ==
    PlayingStep =>
        LET movable == {a \in Elems(trace.at_check) : Intact(a)}
            Was(a) == Named(trace.pre.aliens, a.id)
        IN  /\ Cardinality(Shifted) <= 1
            /\ \A a \in Shifted :
                  /\ Intact(a)
                  /\ \/ LeftOfPlayer(Was(a), player) /\ a.x = Was(a).x + 1
                     \/ RightOfPlayer(Was(a), player) /\ a.x = Was(a).x - 1
            /\ trace.rng_calls = IF movable = {} THEN 0 ELSE 1
            /\ (/\ movable # {}
                /\ \A a \in movable :
                      LeftOfPlayer(Was(a), player) \/ RightOfPlayer(Was(a), player))
                  => Cardinality(Shifted) = 1

C21_Witness ==
    /\ PlayingStep
    /\ trace.event = "MoveLeft"
    /\ \E a \in Shifted : a.x = Named(trace.pre.aliens, a.id).x - 1
    /\ \E a \in Elems(trace.at_check) :
          /\ Intact(a) /\ a \notin Shifted
          /\ LeftOfPlayer(a, trace.pre.player) /\ ~LeftOfPlayer(a, player)

(* an aligned alien was there to be chosen and nothing moved *)
C21_AlignedWitness ==
    /\ PlayingStep
    /\ Shifted = {}
    /\ \E a, b \in Elems(trace.at_check) :
          /\ Intact(a) /\ Intact(b)
          /\ ~LeftOfPlayer(a, player) /\ ~RightOfPlayer(a, player)
          /\ RightOfPlayer(b, player)

(* C22: a call made while Playing returns in GameOver only if at its       *)
(* termination check some alien alive at explosion frame 0 has its lower   *)
(* edge on or below the player's row or overlaps the player's span; an     *)
(* alien at explosion frame 1..4 causes no GameOver wherever it stands.    *)
C22_GameOverOnlyByIntact ==
    (PlayingStep /\ game_state = "GameOver") =>
        \E a \in Elems(trace.at_check) :
            /\ a.alive
            /\ a.explosion_frame = 0
            /\ AtOrBelowPlayer(a) \/ Overlaps(a, player)

C22_Witness ==
    /\ PlayingStep
    /\ game_state = "GameOver"
    /\ \E a \in Elems(trace.at_check) :
          /\ a.alive /\ a.explosion_frame \in 1..(EXPLOSION_DONE - 1)
          /\ AtOrBelowPlayer(a) /\ Overlaps(a, player)

(* an exploding alien on the player and the game goes on *)
C22_SparedWitness ==
    /\ PlayingStep
    /\ game_state = "Playing"
    /\ \E a \in Elems(aliens) :
          /\ a.alive /\ a.explosion_frame \in 1..(EXPLOSION_DONE - 1)
          /\ AtOrBelowPlayer(a) /\ Overlaps(a, player)
    /\ \E a \in Elems(aliens) : Intact(a)

(* what the phases after the command make of the game g when the frame     *)
(* counter is already incremented and the generator returns n              *)
Phases(g, n) ==
    LET b2 == update_blasts(g.blasts)
        hc == handle_collisions(b2, g.aliens)
        ex == update_explosions(hc.aliens, g.score)
        mv == update_alien_movement(ex.aliens, g.player, g.frame_counter, n)
        go == check_game_over_conditions(mv, g.player, g.game_state)
    IN  [game_state |-> go.game_state, score |-> ex.score,
         frame_counter |-> g.frame_counter, player |-> g.player,
         blasts |-> hc.blasts, aliens |-> go.aliens]

(* the game an AdvanceFrame call makes of the game before the last call *)
AsNoop(n) ==
    Phases([trace.pre EXCEPT !.frame_counter = @ + 1], n)

(* C23: a call that processes Quit while Playing still runs the phases     *)
(* after the command: blasts, aliens, score, frame counter and player come *)
(* out as an AdvanceFrame call in the same state leaves them, and the      *)
(* termination check is evaluated, its Win or GameOver being the result    *)
(* as it would be for AdvanceFrame.                                        *)
C23_QuitRunsPhases ==
    (PlayingStep /\ trace.event = "Quit") =>
        \E n \in 0..Max(0, Len(trace.pre.aliens) - 1) :
            /\ score = AsNoop(n).score
            /\ frame_counter = AsNoop(n).frame_counter
            /\ player = AsNoop(n).player
            /\ blasts = AsNoop(n).blasts
            /\ aliens = AsNoop(n).aliens
            /\ game_state = IF AsNoop(n).game_state = "Playing"
                            THEN "Quit" ELSE AsNoop(n).game_state
            /\ trace.evaluated # <<>>

C23_Witness ==
    /\ PlayingStep
    /\ trace.event = "Quit"
    /\ trace.hits # {}
    /\ trace.completed # {}
    /\ Len(blasts) < Len(trace.pre.blasts)
    /\ score = trace.pre.score + DESTROY_BONUS

(* the same call with an alien moved by it *)
C23_MoveWitness ==
    /\ PlayingStep
    /\ trace.event = "Quit"
    /\ Shifted # {}
    /\ game_state = "Quit"

(* C24: an alien stops being alive in the very phase that takes its        *)
(* explosion frame to 5 and is removed in the same call: in every state    *)
(* between calls of a run whose aliens started alive, every alien in the   *)
(* vector is alive at explosion frame 0..4, so none is drawn at frame 5.   *)
C24_NoExplodedAlienSeen ==
    /\ \A a \in Elems(aliens) :
          a.alive /\ a.explosion_frame \in 0..(EXPLOSION_DONE - 1)
    /\ PlayingStep =>
          \A a \in Elems(trace.at_check) :
              /\ a.alive <=> a.explosion_frame < EXPLOSION_DONE
              /\ a.explosion_frame <= EXPLOSION_DONE
              /\ ~a.alive <=> a.id \in trace.completed
              /\ ~a.alive => a.id \notin Ids(aliens)

C24_Witness ==
    /\ PlayingStep
    /\ trace.completed # {}
    /\ \E a \in Elems(aliens) : a.explosion_frame = EXPLOSION_DONE - 1
    /\ game_state = "Playing"
    /\ trace.pre.frame_counter > StartFrame

(* C25: an alien whose explosion frame is above 0 does not change          *)
(* position: from the call in which it is hit until it is removed neither  *)
(* the choice of a horizontal mover nor the periodic descent changes its x *)
(* or y.                                                                   *)
C25_ExplodingStaysPut ==
    PlayingStep =>
        \A a \in Elems(trace.at_check) :
            a.explosion_frame > 0 =>
                /\ a.x = Named(trace.pre.aliens, a.id).x
                /\ a.y = Named(trace.pre.aliens, a.id).y

C25_Witness ==
    /\ PlayingStep
    /\ frame_counter % ALIEN_MOVE_DOWN_FREQ = 0
    /\ \E a \in Elems(aliens) :
          /\ a.id \in HitIds(trace.hits)
          /\ a.y = Named(trace.pre.aliens, a.id).y
    /\ \E a \in Elems(aliens) :
          /\ a.explosion_frame > 1
          /\ a.id \notin HitIds(trace.hits)
          /\ a.y = Named(trace.pre.aliens, a.id).y

(* an exploding alien off the player's span, the only one that could move *)
C25_OffSpanWitness ==
    /\ PlayingStep
    /\ Shifted = {}
    /\ \E a \in Elems(aliens) :
          /\ a.explosion_frame > 0
          /\ RightOfPlayer(a, player) \/ LeftOfPlayer(a, player)

(* the blasts of the collision phase of the last call: the old ones and    *)
(* the fired one, one row up, still on screen                              *)
Arriving ==
    {b \in {Up(o) : o \in Elems(trace.pre.blasts)}
            \cup (IF trace.event = "Fire"
                  THEN {[x |-> trace.pre.player.x, y |-> Player_y_pos - 2]}
                  ELSE {}) : b.y > 0}

MidExplosion(alien) ==
    alien.alive /\ alien.explosion_frame \in 1..(EXPLOSION_DONE - 1)

(* C26: an alien in mid-explosion is immune: a blast inside the box of an  *)
(* alien at explosion frame 1..4 is not consumed by it and does not reset  *)
(* or otherwise change its explosion frame, which advances by one as it    *)
(* does without the blast; unless another alien takes it, the blast flies  *)
(* on.                                                                     *)
C26_ExplodingImmune ==
    PlayingStep =>
        \A a \in {e \in Elems(trace.pre.aliens) : MidExplosion(e)} :
            /\ a.id \notin HitIds(trace.hits)
            /\ Named(trace.at_check, a.id).explosion_frame = a.explosion_frame + 1
            /\ \A b \in Arriving :
                  InBox(b, a) =>
                      \/ b \in Elems(blasts)
                      \/ \E h \in trace.hits :
                            h[1] = b /\ Intact(Named(trace.pre.aliens, h[2]))

C26_Witness ==
    /\ PlayingStep
    /\ \E a \in Elems(trace.pre.aliens) :
          /\ MidExplosion(a)
          /\ \E b \in Arriving : InBox(b, a) /\ b \in Elems(blasts)
          /\ \E o \in Elems(trace.pre.blasts) : InBox(o, a) /\ InBox(Up(o), a)

(* C27: in every state each alien's x is within                            *)
(* [0, GAME_WIDTH - ALIEN_WIDTH], so its two columns lie in the playfield; *)
(* a move left at x = 0 and a move right at GAME_WIDTH - ALIEN_WIDTH leave *)
(* x unchanged, any other horizontal move changes x by one.                *)
C27_AlienClamped ==
    \A a \in Elems(aliens) \cup Elems(trace.at_check) :
        /\ a.x >= 0
        /\ a.x + ALIEN_WIDTH - 1 <= GAME_WIDTH - 1
        /\ Alien_move_left(a) = [a EXCEPT !.x = IF a.x = 0 THEN 0 ELSE a.x - 1]
        /\ Alien_move_right(a)
              = [a EXCEPT !.x = IF a.x = GAME_WIDTH - ALIEN_WIDTH
                                THEN a.x ELSE a.x + 1]

C27_Witness ==
    /\ PlayingStep
    /\ \E a \in Shifted :
          Named(trace.pre.aliens, a.id).x = GAME_WIDTH - ALIEN_WIDTH
    /\ \E a \in Elems(aliens) : a.x = GAME_WIDTH - ALIEN_WIDTH /\ Intact(a)

(* the same at the left edge *)
C27_LeftWitness ==
    /\ PlayingStep
    /\ \E a \in Shifted : Named(trace.pre.aliens, a.id).x = 0
    /\ \E a \in Elems(aliens) : a.x = 0 /\ Intact(a)

(* C28: only the movement commands change the player: a call that          *)
(* processes Fire, AdvanceFrame or Quit leaves the player's x unchanged,   *)
(* and after a MoveLeft or MoveRight the player is where the command put   *)
(* it, no later phase of the call having moved it.                         *)
C28_PlayerMovedByCommandsOnly ==
    Stepped =>
        /\ trace.event \in {"Fire", "AdvanceFrame", "Quit"}
              => player.x = trace.pre.player.x
        /\ (PlayingStep /\ trace.event = "MoveLeft")
              => player = Player_move_left(trace.pre.player)
        /\ (PlayingStep /\ trace.event = "MoveRight")
              => player = Player_move_right(trace.pre.player)
        /\ TerminalStep => player = trace.pre.player

C28_Witness ==
    /\ PlayingStep
    /\ trace.event = "Fire"
    /\ player.x = trace.pre.player.x
    /\ player.x # Player_new.x
    /\ trace.hits # {}
    /\ Shifted # {}

(* C29: the frame counter grows by exactly 1 in every call made while      *)
(* Playing, the call that processes Quit and the call that ends in Win or  *)
(* GameOver included, and by 0 in every call made in a terminal state.     *)
C29_FrameCounter ==
    /\ PlayingStep => frame_counter = trace.pre.frame_counter + 1
    /\ TerminalStep => frame_counter = trace.pre.frame_counter

C29_Witness ==
    /\ PlayingStep
    /\ trace.event = "Quit"
    /\ game_state = "GameOver"
    /\ frame_counter = trace.pre.frame_counter + 1
    /\ frame_counter > StartFrame + 1

(* a call in a terminal state *)
C29_TerminalWitness ==
    /\ TerminalStep
    /\ game_state = "Win"
    /\ trace.event = "AdvanceFrame"
    /\ frame_counter = trace.pre.frame_counter

(* C30: Blast::move_up moves the blast one row up and returns whether it   *)
(* is still within bounds afterwards, in agreement with the engine's rule  *)
(* of retention: it returns true exactly when the engine keeps the blast   *)
(* after the move (y > 0); called at y = 0 it leaves y at 0 and returns    *)
(* false.                                                                  *)
C30_MoveUpAgreesWithRetain ==
    PlayingStep =>
        \A b \in Elems(trace.pre.blasts) \cup {Blast_new(trace.pre.player.x, 0)} :
            /\ move_up_returns(b) <=> OnScreen(move_up(b))
            /\ b.y > 0 => move_up(b) = Up(b)
            /\ b.y = 0 => (move_up(b) = b /\ ~move_up_returns(b))

(* the parts of C30 that hold: the move itself and the call at y = 0 *)
C30_MoveUpMoves ==
    PlayingStep =>
        \A b \in Elems(trace.pre.blasts) \cup {Blast_new(trace.pre.player.x, 0)} :
            /\ b.y > 0 => (move_up(b) = Up(b) /\ move_up_returns(b))
            /\ b.y = 0 => (move_up(b) = b /\ ~move_up_returns(b))

(* the alien as the renderer meets it, wearing one of the designs *)
Wearing(alien, k) ==
    [design |-> ALIEN_DESIGNS[k], explosion_frame |-> alien.explosion_frame]

(* the four glyphs drawn for it, row by row, and the cells showing '*' *)
Drawn(w) == display_strings(w)[1] \o display_strings(w)[2]

Burst(w) == {i \in 1..4 : Drawn(w)[i] = BLAST_CHAR}

(* C31: the glyphs of an alien are its design at explosion frame 0 and, at *)
(* frame k in 1..4, the design with exactly its first k cells (top-left,   *)
(* top-right, bottom-left, bottom-right) replaced by '*'; the cells        *)
(* replaced at the next frame include those replaced now.                  *)
C31_ExplosionGlyphs ==
    \A a \in Elems(aliens) : \A k \in 1..Len(ALIEN_DESIGNS) :
        LET w == Wearing(a, k)
            next == [w EXCEPT !.explosion_frame = @ + 1]
        IN  /\ \A i \in 1..4 :
                  Drawn(w)[i] = IF i <= w.explosion_frame
                                THEN BLAST_CHAR ELSE w.design[i]
            /\ Burst(w) = 1..w.explosion_frame
            /\ w.explosion_frame = 0 =>
                  display_strings(w) = <<<<w.design[1], w.design[2]>>,
                                         <<w.design[3], w.design[4]>>>>
            /\ w.explosion_frame < EXPLOSION_DONE - 1 =>
                  Burst(w) \subseteq Burst(next)

C31_Witness ==
    /\ PlayingStep
    /\ \E a \in Elems(aliens) :
          /\ a.id \in DOMAIN trace.hit_at
          /\ a.explosion_frame = 3
          /\ Burst(Wearing(a, 1)) = {1, 2, 3}
    /\ \E a \in Elems(aliens) : a.explosion_frame = 0

(* C32 as stated: the random number generator is consulted once in every   *)
(* call made while Playing and not at all in a call made in a terminal     *)
(* state.                                                                  *)
C32_RngOncePerStep ==
    /\ PlayingStep => trace.rng_calls = 1
    /\ TerminalStep => trace.rng_calls = 0

(* C32 amended: in a call made while Playing the generator is consulted    *)
(* once if some alien is alive at explosion frame 0 in the movement phase  *)
(* and not at all if none is; it is never consulted in a call made in a    *)
(* terminal state.                                                         *)
C32_RngOncePerChoice ==
    /\ PlayingStep =>
          /\ (\E a \in Elems(trace.at_check) : Intact(a)) => trace.rng_calls = 1
          /\ (\A a \in Elems(trace.at_check) : ~Intact(a)) => trace.rng_calls = 0
    /\ TerminalStep => trace.rng_calls = 0

C32_Witness ==
    /\ PlayingStep
    /\ trace.rng_calls = 0
    /\ game_state = "Playing"
    /\ trace.hits # {}
    /\ aliens # <<>>

(* the score after the command of the last call and after k bonuses, with  *)
(* the ends of the i32 range as stops                                      *)
Charged ==
    IF trace.pre.score = I32_MIN /\ CostOf(trace.event) = 1
    THEN I32_MIN ELSE trace.pre.score - CostOf(trace.event)

Rewarded(sc, k) ==
    IF sc >= I32_MAX - k * DESTROY_BONUS THEN I32_MAX ELSE sc + k * DESTROY_BONUS

(* C33: the score arithmetic saturates and never wraps: the cost of a      *)
(* command deducted at the minimum i32 leaves the minimum, the bonus added *)
(* within 250 of the maximum i32 gives the maximum, and everywhere else    *)
(* the score is the exact difference or sum.                               *)
C33_ScoreSaturates ==
    PlayingStep =>
        /\ score = Rewarded(Charged, Cardinality(trace.completed))
        /\ trace.completed = {} => score <= trace.pre.score
        /\ CostOf(trace.event) = 0 => score >= trace.pre.score

C33_Witness ==
    /\ PlayingStep
    /\ trace.completed # {}
    /\ trace.pre.score > I32_MAX - DESTROY_BONUS
    /\ trace.pre.score < I32_MAX
    /\ trace.event = "Fire"
    /\ score = I32_MAX

(* the cost deducted at the minimum *)
C33_FloorWitness ==
    /\ PlayingStep
    /\ trace.pre.score = I32_MIN
    /\ trace.event = "MoveLeft"
    /\ trace.completed = {}
    /\ score = I32_MIN

(* C34: in every state between calls of a run the score is INITIAL_SCORE   *)
(* less the number of MoveLeft, MoveRight and Fire commands processed      *)
(* while Playing plus 250 for every alien the run started with that is no  *)
(* longer in the vector (30 less the number of aliens, on a new game).     *)
C34_ScoreAccounting ==
    /\ score = INITIAL_SCORE - trace.paid
                 + DESTROY_BONUS * (trace.built - Len(aliens))
    /\ Stepped =>
          trace.paid - (IF PlayingStep THEN CostOf(trace.event) ELSE 0)
              = INITIAL_SCORE - trace.pre.score
                  + DESTROY_BONUS * (trace.built - Len(trace.pre.aliens))
    /\ (Stepped /\ FromNew) => trace.built = 3 * 10

C34_Witness ==
    /\ PlayingStep
    /\ trace.paid >= 2
    /\ trace.event = "Quit"
    /\ Len(aliens) < trace.built
    /\ trace.completed # {}
    /\ \E a \in Elems(trace.pre.aliens) :
          a.id \in trace.completed /\ a.id \in DOMAIN trace.hit_at

(* C35: every game ends.  No intact alien stands above the row the descents *)
(* so far take the constructor's top row to, so once frame InvasionFrame    *)
(* (180) is counted a game with an intact alien is GameOver; and no game is *)
(* Playing at frame LastFrame (183), which the frame counter never passes.  *)
C35_GameEnds ==
    /\ \A a \in Elems(aliens) :
          Intact(a) =>
              a.y >= FirstRow + frame_counter \div ALIEN_MOVE_DOWN_FREQ
    /\ (PlayingStep /\ frame_counter >= InvasionFrame
          /\ \E a \in Elems(trace.at_check) : Intact(a))
          => game_state = "GameOver"
    /\ (frame_counter >= InvasionFrame /\ \E a \in Elems(aliens) : Intact(a))
          => game_state = "GameOver"
    /\ frame_counter >= LastFrame => game_state # "Playing"
    /\ frame_counter <= LastFrame

(* the last alien is hit in the call of the invasion frame, and the game   *)
(* is won in the call of the last frame                                    *)
C35_Witness ==
    /\ PlayingStep
    /\ frame_counter = LastFrame
    /\ game_state = "Win"
    /\ trace.pre.aliens # <<>>
    /\ \E id \in trace.completed :
          /\ id \in DOMAIN trace.hit_at
          /\ trace.hit_at[id].steps = LastFrame - InvasionFrame

(* an intact alien of the top row arrives on the row above the player's *)
C35_InvasionWitness ==
    /\ PlayingStep
    /\ frame_counter = InvasionFrame
    /\ game_state = "GameOver"
    /\ \E a \in Elems(aliens) :
          Intact(a) /\ a.y = Player_y_pos - ALIEN_HEIGHT + 1

(* the termination check without its third test: the state it would leave *)
WithoutOverlapCheck(as, st) ==
    LET kept == SelectSeq(as, NotGone)
    IN  IF all_defeated(kept) THEN "Win"
        ELSE IF \E i \in 1..Len(kept) : Invades(kept[i]) THEN "GameOver"
        ELSE st

(* C36: the test of an alien overlapping the player never decides the      *)
(* outcome.  An intact alien whose box overlaps the player's span has its  *)
(* lower edge at or below the player's row; the third test is reached only *)
(* when no intact alien overlaps; and every call made while Playing leaves *)
(* the state the termination check would leave without the third test.     *)
C36_OverlapNeverDecides ==
    PlayingStep =>
        /\ \A a \in Elems(trace.at_check) :
              \A v \in Variants(a) \cup {a} :
                  (Intact(v) /\ collides_with_alien(player, v))
                      => AtOrBelowPlayer(v)
        /\ Len(trace.evaluated) = 3
              => \A a \in Elems(trace.at_check) : ~Rams(a, player)
        /\ game_state
              = WithoutOverlapCheck(trace.at_check,
                    IF trace.event = "Quit" THEN "Quit" ELSE "Playing")

(* an intact alien overlaps the player and the invasion test ends the game *)
C36_Witness ==
    /\ PlayingStep
    /\ game_state = "GameOver"
    /\ trace.evaluated = <<"win", "invasion">>
    /\ \E a \in Elems(trace.at_check) : Rams(a, player)
    /\ \A a \in Elems(trace.pre.aliens) : ~Rams(a, trace.pre.player)

(* the third test is reached with a dead alien on the player's span, and   *)
(* play goes on                                                            *)
C36_PassWitness ==
    /\ PlayingStep
    /\ game_state = "Playing"
    /\ Len(trace.evaluated) = 3
    /\ \E a \in Elems(trace.at_check) : collides_with_alien(player, a)
    /\ \E a \in Elems(trace.at_check) : Intact(a)

(* C37: no blast passes through an intact alien it lies on.  When a call   *)
(* is made while Playing on a state in which a blast lies inside the box   *)
(* of an alien that is alive at explosion frame 0, that blast hits an      *)
(* alien in the call.                                                      *)
C37_NoPassThrough ==
    PlayingStep =>
        \A b \in Elems(trace.pre.blasts) :
            (\E a \in Elems(trace.pre.aliens) : Intact(a) /\ InBox(b, a))
                => Up(b) \in {h[1] : h \in trace.hits}

(* a blast on the lower row of an intact alien's box hits it in the call *)
C37_LowerRowHit ==
    PlayingStep =>
        \A b \in Elems(trace.pre.blasts) :
            \A a \in Elems(trace.pre.aliens) :
                (Intact(a) /\ InBox(b, a) /\ b.y = a.y + ALIEN_HEIGHT - 1)
                    => Up(b) \in {h[1] : h \in trace.hits}

(* C38: in every state between calls the blasts stand oldest first on      *)
(* strictly increasing rows, so no two share a row; every row lies between *)
(* 1 and two above the player's, and there are at most that many blasts.   *)
C38_BlastsOrdered ==
    /\ \A i \in 1..Len(blasts) :
          /\ blasts[i].y >= 1
          /\ blasts[i].y <= Player_y_pos - 2
    /\ \A i \in 1..(Len(blasts) - 1) : blasts[i].y < blasts[i + 1].y
    /\ \A i, j \in 1..Len(blasts) : blasts[i].y = blasts[j].y => i = j
    /\ Len(blasts) <= Player_y_pos - 2

(* a blast fired in the last call stands behind one fired long before *)
C38_Witness ==
    /\ PlayingStep
    /\ trace.event = "Fire"
    /\ Len(blasts) >= 2
    /\ blasts[1].y = 1
    /\ blasts[Len(blasts)].y = Player_y_pos - 2
    /\ Len(trace.pre.blasts) = Len(blasts)

====
